---- MODULE Spec2Model ----
(***************************************************************************)
(* Model of scripts/script.js: two paginated news feeds ("best" and        *)
(* "latest") loaded from the HackerNews API.  Each feed owns an ID list, a *)
(* page cursor and a loading flag; a page is fetched in chunks of          *)
(* MAX_CONCURRENT_REQUESTS parallel item requests and rendered chunk by    *)
(* chunk.  Every await of the script is a separate step of the model.      *)
(***************************************************************************)
EXTENDS Integers, Sequences, FiniteSets, TLC

\* ===== Constants of the script =====
ITEMS_PER_PAGE == 6
MAX_CONCURRENT_REQUESTS == 3
MIN_SCORE_LATEST == 0

\* ===== Bounds of the model =====
\* longest ID list an endpoint holds, and longest pair of lists (both feeds)
MaxLen == 7
MaxTotalLen == 8
\* the count of ignored loadMore calls saturates here
MaxIgnored == 1

Feeds == {"best", "latest"}

Min(a, b) == IF a < b THEN a ELSE b

\* An optional attribute is a sequence of length 0 (absent) or 1 (present).
None == <<>>
Some(v) == <<v>>

\* The ID list an endpoint holds: n distinct opaque IDs, not in numeric order.
IdList(n) == [i \in 1..n |-> 100 + ((i * 5) % 13)]

\* Shapes of the record the item endpoint can hold for an ID.
ItemShapes ==
    { [type |-> "story",   url |-> Some("u"), title |-> Some("t"), score |-> Some(1)],
      [type |-> "comment", url |-> Some("u"), title |-> Some("t"), score |-> Some(1)],
      [type |-> "story",   url |-> None,      title |-> Some("t"), score |-> Some(1)],
      [type |-> "story",   url |-> Some("u"), title |-> None,      score |-> Some(1)],
      [type |-> "story",   url |-> Some("u"), title |-> Some("t"), score |-> Some(0 - 1)] }

ItemWithId(id, shape) ==
    [id |-> id, type |-> shape.type, url |-> shape.url, title |-> shape.title,
     score |-> shape.score]

\* What the transport can answer to one request: a rejected fetch ("neterr"), a
\* response whose ok flag is false ("status"), a body that is not JSON
\* ("badjson"), or a decoded body ("ok").  body is the JSON value the response
\* carries: None for null or for no decodable body.
FailureKinds == {"neterr", "status", "badjson"}
Responses(payload) ==
    {[kind |-> k, body |-> None] : k \in FailureKinds \cup {"ok"}}
        \cup {[kind |-> k, body |-> Some(payload)] : k \in {"status", "ok"}}
IsFailure(resp) == resp.kind \in FailureKinds

\* item endpoint: the payload is the record of that ID.  It stands for the
\* decoded object; its attributes are first read by onItemFetched and are drawn
\* there (ProcessChunk).
ItemResponses(id) == Responses(id)

\* list endpoint: the payload is the array the endpoint holds (the endpoints
\* answer with a JSON array of IDs or with null)
ListResponses(n) == Responses(IdList(n))

VARIABLES
    feedLen,            \* environment: length of the array each list endpoint holds
    newsIds,            \* bestNewsIds / latestNewsIds
    newsPage,           \* bestNewsPage / latestNewsPage
    newsLoading,        \* bestNewsLoading / latestNewsLoading
    initPc,             \* position of initializeBestNews / initializeLatestNews
    listeners,          \* init(): click listeners attached
    loadPc,             \* position of the running loadMore...News call
    batchIds,           \* loadMore: the page's ID slice
    chunkStart,         \* fetchItemsWithConcurrency: loop variable i
    results,            \* fetchItemsWithConcurrency: the chunk's promises
    validItemsCount,    \* fetchItemsWithConcurrency: validItemsCount
    surface,            \* the .gallery / .list children, in document order
    button,             \* loadMoreBest / loadMoreLatest style.display
    apiRequests,        \* history: requests sent to each list endpoint
    apiResult,          \* history: what fetchFromAPI returned to initialize
    fetchLog,           \* history: IDs requested from the item endpoint, in order
    advances,           \* history: loadMore calls that passed the guard
    ignored,            \* history: loadMore calls that returned at the guard
    pageStartLen,       \* history: Len(surface) when the current page started
    outOfOrder          \* history: in the page being loaded an item arrived before
                        \* an item that precedes it in its chunk

vars == <<feedLen, newsIds, newsPage, newsLoading, initPc, listeners, loadPc,
          batchIds, chunkStart, results, validItemsCount, surface, button,
          apiRequests, apiResult, fetchLog, advances, ignored, pageStartLen,
          outOfOrder>>

\* ===== API client =====

\* fetchFromAPI: the decoded body, or [] after any failure
fetchFromAPINoOkCheck(resp) == IF resp.kind \in {"ok", "status"} THEN resp.body ELSE Some(<<>>)
fetchFromAPI(resp) == IF resp.kind = "ok" THEN resp.body ELSE Some(<<>>)

\* fetchItemDetails: the decoded body, or null after any failure
fetchItemDetails(resp) == IF resp.kind = "ok" THEN resp.body ELSE None

\* initializeBestNews / initializeLatestNews: !ids || ids.length === 0
idsMissing(ids) == ids = None \/ Len(ids[1]) = 0

\* ===== Rendering =====

\* escapeHTML(text) calls text.replace: a TypeError when text is undefined
escapeHTMLThrows(text) == text = None

\* renderBestNewsItem / renderLatestNewsItem throw before appendChild when the
\* title cannot be escaped (formatRelativeTime and extractDomain catch their own)
renderThrows(item) == escapeHTMLThrows(item.title)

\* The child renderBestNewsItem / renderLatestNewsItem appends, as a record of
\* the item it was built from: the attributes written into it (url, title, and
\* the id that picks the image) and the item's type.  No renderer reads the score.
Node(item) == [id |-> item.id, type |-> item.type, url |-> item.url, title |-> item.title]

\* gallery.appendChild(link) / list.appendChild(li)
renderNewsItemPrepend(surf, item) == <<Node(item)>> \o surf
renderNewsItem(surf, item) == Append(surf, Node(item))

\* updateBestNewsLoadButton / updateLatestNewsLoadButton
hasMoreNextCursor(pg, ids) == (pg + 2) * ITEMS_PER_PAGE < Len(ids)
hasMoreStaleCursor(pg, ids) == pg * ITEMS_PER_PAGE < Len(ids)
hasMore(pg, ids) == (pg + 1) * ITEMS_PER_PAGE < Len(ids)
updateLoadButton(pg, ids) == IF hasMore(pg, ids) THEN "block" ELSE "none"

\* ===== Validity =====

\* (item.score || 0)
scoreOrZero(item) == IF item.score = None THEN 0 ELSE item.score[1]

\* the condition of onItemFetched in loadMoreBestNews / loadMoreLatestNews
isValidItemNoUrlCheck(f, item) ==
    /\ item.type = "story"
    /\ (f = "latest" => scoreOrZero(item) >= MIN_SCORE_LATEST)
isValidItemAnyType(f, item) ==
    /\ item.url # None
    /\ (f = "latest" => scoreOrZero(item) >= MIN_SCORE_LATEST)
isValidItem(f, item) ==
    /\ item.type = "story"
    /\ item.url # None
    /\ (f = "latest" => scoreOrZero(item) >= MIN_SCORE_LATEST)

\* ===== Batch fetcher =====

Pending == [resolved |-> FALSE, item |-> None]
Resolved(v) == [resolved |-> TRUE, item |-> v]

\* ids.slice(a, b)
Slice(s, a, b) == SubSeq(s, a + 1, Min(b, Len(s)))

\* the IDs of the chunk that starts at loop index i
chunkIdsOverlap(ids, i) == Slice(ids, i, i + MAX_CONCURRENT_REQUESTS + 1)
chunkIdsDouble(ids, i) == Slice(ids, i, i + 2 * MAX_CONCURRENT_REQUESTS - 1)
chunkIdsWholePage(ids, i) == Slice(ids, i, i + ITEMS_PER_PAGE)
chunkIds(ids, i) == Slice(ids, i, i + MAX_CONCURRENT_REQUESTS)

\* batchItems.forEach(item => { if (item && onItemFetched(item)) validItemsCount++ })
\* from slot k on; shapes[k] gives the attributes of the object in slot k
RECURSIVE forEachItem(_, _, _, _, _, _)
forEachItem(f, slots, shapes, k, surf, cnt) ==
    IF k > Len(slots) THEN [surface |-> surf, count |-> cnt, thrown |-> FALSE]
    ELSE IF slots[k].item = None THEN forEachItem(f, slots, shapes, k + 1, surf, cnt)
    ELSE LET item == ItemWithId(slots[k].item[1], shapes[k]) IN
         IF ~isValidItem(f, item) THEN forEachItem(f, slots, shapes, k + 1, surf, cnt)
         ELSE IF renderThrows(item) THEN [surface |-> surf, count |-> cnt, thrown |-> TRUE]
         ELSE forEachItem(f, slots, shapes, k + 1, renderNewsItem(surf, item), cnt + 1)

\* the slots of the chunk whose promise resolved with an object
ObjectSlots(f) == {k \in DOMAIN results[f] : results[f][k].item # None}

Outstanding(f) == Cardinality({k \in DOMAIN results[f] : ~results[f][k].resolved})

\* await Promise.all(batchPromises) resumes: every promise of the chunk has resolved
promiseAllResolvedAny(f) == \E k \in DOMAIN results[f] : results[f][k].resolved
promiseAllResolved(f) == Outstanding(f) = 0

\* the guard of loadMoreBestNews / loadMoreLatestNews: TRUE when the call returns at once
loadMoreReturnsPastEnd(loading, pg, ids) ==
    loading \/ pg * ITEMS_PER_PAGE >= Len(ids) + ITEMS_PER_PAGE
loadMoreReturnsOffByOne(loading, pg, ids) == loading \/ pg * ITEMS_PER_PAGE > Len(ids)
loadMoreReturnsNoLatch(loading, pg, ids) == pg * ITEMS_PER_PAGE >= Len(ids)
loadMoreReturnsLatchOnly(loading, pg, ids) == loading
loadMoreReturnsExact(loading, pg, ids) == loading \/ pg * ITEMS_PER_PAGE = Len(ids)
loadMoreReturns(loading, pg, ids) == loading \/ pg * ITEMS_PER_PAGE >= Len(ids)

\* One pass of the for loop head of fetchItemsWithConcurrency at index i over the
\* slice ids: issue the next chunk, or call onBatchComplete after the last one.
\* pg and all are the cursor and the ID list updateLoadButton reads.
LoopHead(f, ids, i, pg, all) ==
    IF i < Len(ids)
    THEN /\ results' = [results EXCEPT ![f] = [k \in 1..Len(chunkIds(ids, i)) |-> Pending]]
         /\ fetchLog' = [fetchLog EXCEPT ![f] = @ \o chunkIds(ids, i)]
         /\ chunkStart' = [chunkStart EXCEPT ![f] = i]
         /\ loadPc' = [loadPc EXCEPT ![f] = "fetching"]
         /\ UNCHANGED button
    ELSE /\ results' = [results EXCEPT ![f] = <<>>]
         /\ chunkStart' = [chunkStart EXCEPT ![f] = i]
         /\ button' = [button EXCEPT ![f] = updateLoadButton(pg, all)]
         /\ loadPc' = [loadPc EXCEPT ![f] = "completing"]
         /\ UNCHANGED fetchLog

\* loadMoreBestNews / loadMoreLatestNews up to its await, called with the feed's
\* cursor pg and ID list ids
loadMoreNews(f, pg, ids) ==
    IF loadMoreReturns(newsLoading[f], pg, ids)
    THEN /\ ignored' = [ignored EXCEPT ![f] = Min(@ + 1, MaxIgnored)]
         /\ UNCHANGED <<newsLoading, loadPc, batchIds, chunkStart, results,
                        validItemsCount, button, fetchLog, advances, pageStartLen>>
    ELSE LET slice == Slice(ids, pg * ITEMS_PER_PAGE, pg * ITEMS_PER_PAGE + ITEMS_PER_PAGE) IN
         /\ newsLoading' = [newsLoading EXCEPT ![f] = TRUE]
         /\ batchIds' = [batchIds EXCEPT ![f] = slice]
         /\ validItemsCount' = [validItemsCount EXCEPT ![f] = 0]
         /\ advances' = [advances EXCEPT ![f] = @ + 1]
         /\ pageStartLen' = [pageStartLen EXCEPT ![f] = Len(surface[f])]
         /\ LoopHead(f, slice, 0, pg, ids)
         /\ UNCHANGED ignored

\* ===== Steps =====

\* The list request of feed f is answered: fetchFromAPI returns and
\* initializeBestNews / initializeLatestNews runs up to its await or its return.
ResolveIdList(f, resp) ==
    /\ initPc[f] = "fetching"
    /\ resp \in ListResponses(feedLen[f])
    /\ LET ids == fetchFromAPI(resp) IN
       /\ apiResult' = [apiResult EXCEPT ![f] = Some(ids)]
       /\ IF idsMissing(ids)
          THEN /\ initPc' = [initPc EXCEPT ![f] = "done"]
               /\ UNCHANGED <<newsIds, newsPage, newsLoading, loadPc, batchIds,
                              chunkStart, results, validItemsCount, button, fetchLog,
                              advances, ignored, pageStartLen>>
          ELSE /\ newsIds' = [newsIds EXCEPT ![f] = ids[1]]
               /\ newsPage' = [newsPage EXCEPT ![f] = 0]
               /\ initPc' = [initPc EXCEPT ![f] =
                               IF loadMoreReturns(newsLoading[f], 0, ids[1])
                               THEN "done" ELSE "loading"]
               /\ loadMoreNews(f, 0, ids[1])
    /\ UNCHANGED <<feedLen, listeners, surface, apiRequests, outOfOrder>>

\* The item request in slot k of the current chunk is answered.
ResolveItem(f, k, resp) ==
    /\ loadPc[f] = "fetching"
    /\ k \in DOMAIN results[f]
    /\ ~results[f][k].resolved
    /\ resp \in ItemResponses(batchIds[f][chunkStart[f] + k])
    /\ results' = [results EXCEPT ![f][k] = Resolved(fetchItemDetails(resp))]
    /\ outOfOrder' = [outOfOrder EXCEPT ![f] =
                          @ \/ \E j \in 1..(k - 1) : ~results[f][j].resolved]
    /\ UNCHANGED <<feedLen, newsIds, newsPage, newsLoading, initPc, listeners, loadPc,
                   batchIds, chunkStart, validItemsCount, surface, button, apiRequests,
                   apiResult, fetchLog, advances, ignored, pageStartLen>>

\* Promise.all of the chunk has resolved: the forEach over the chunk, then the
\* next chunk or onBatchComplete.  An exception of the forEach rejects
\* fetchItemsWithConcurrency, loadMore...News and, during initialization,
\* initialize...News.
ProcessChunk(f, shapes) ==
    /\ loadPc[f] = "fetching"
    /\ promiseAllResolved(f)
    /\ LET r == forEachItem(f, results[f], shapes, 1, surface[f], validItemsCount[f]) IN
       /\ surface' = [surface EXCEPT ![f] = r.surface]
       /\ validItemsCount' = [validItemsCount EXCEPT ![f] = r.count]
       /\ IF r.thrown
          THEN /\ loadPc' = [loadPc EXCEPT ![f] = "thrown"]
               /\ results' = [results EXCEPT ![f] = <<>>]
               /\ initPc' = [initPc EXCEPT ![f] = IF @ = "loading" THEN "failed" ELSE @]
               /\ UNCHANGED <<chunkStart, button, fetchLog>>
          ELSE /\ LoopHead(f, batchIds[f], chunkStart[f] + MAX_CONCURRENT_REQUESTS,
                           newsPage[f], newsIds[f])
               /\ UNCHANGED initPc
    /\ UNCHANGED <<feedLen, newsIds, newsPage, newsLoading, listeners, batchIds,
                   apiRequests, apiResult, advances, ignored, pageStartLen, outOfOrder>>

\* loadMore...News resumes after fetchItemsWithConcurrency: cursor++, loading = false;
\* during initialization initialize...News then returns.
CompleteSkipsEmptyPage(f) ==
    /\ loadPc[f] = "completing"
    /\ newsPage' = [newsPage EXCEPT ![f] = IF validItemsCount[f] > 0 THEN @ + 1 ELSE @]
    /\ newsLoading' = [newsLoading EXCEPT ![f] = FALSE]
    /\ loadPc' = [loadPc EXCEPT ![f] = "idle"]
    /\ initPc' = [initPc EXCEPT ![f] = IF @ = "loading" THEN "done" ELSE @]
    /\ outOfOrder' = [outOfOrder EXCEPT ![f] = FALSE]
    /\ UNCHANGED <<feedLen, newsIds, listeners, batchIds, chunkStart, results,
                   validItemsCount, surface, button, apiRequests, apiResult, fetchLog,
                   advances, ignored, pageStartLen>>
Complete(f) ==
    /\ loadPc[f] = "completing"
    /\ newsPage' = [newsPage EXCEPT ![f] = @ + 1]
    /\ newsLoading' = [newsLoading EXCEPT ![f] = FALSE]
    /\ loadPc' = [loadPc EXCEPT ![f] = "idle"]
    /\ initPc' = [initPc EXCEPT ![f] = IF @ = "loading" THEN "done" ELSE @]
    /\ outOfOrder' = [outOfOrder EXCEPT ![f] = FALSE]
    /\ UNCHANGED <<feedLen, newsIds, listeners, batchIds, chunkStart, results,
                   validItemsCount, surface, button, apiRequests, apiResult, fetchLog,
                   advances, ignored, pageStartLen>>

\* init() resumes after Promise.all of both initializations and attaches the listeners
AttachListenersAnyDone ==
    /\ ~listeners
    /\ \E f \in Feeds : initPc[f] = "done"
    /\ listeners' = TRUE
    /\ UNCHANGED <<feedLen, newsIds, newsPage, newsLoading, initPc, loadPc, batchIds,
                   chunkStart, results, validItemsCount, surface, button, apiRequests,
                   apiResult, fetchLog, advances, ignored, pageStartLen, outOfOrder>>
AttachListeners ==
    /\ ~listeners
    /\ \A f \in Feeds : initPc[f] = "done"
    /\ listeners' = TRUE
    /\ UNCHANGED <<feedLen, newsIds, newsPage, newsLoading, initPc, loadPc, batchIds,
                   chunkStart, results, validItemsCount, surface, button, apiRequests,
                   apiResult, fetchLog, advances, ignored, pageStartLen, outOfOrder>>

\* handleLoadMoreBest / handleLoadMoreLatest: a click on the feed's button
Click(f) ==
    /\ listeners
    /\ loadMoreNews(f, newsPage[f], newsIds[f])
    /\ UNCHANGED <<feedLen, newsIds, newsPage, initPc, listeners, surface, apiRequests,
                   apiResult, outOfOrder>>

\* ===== Specification =====

\* The script has been loaded and init() has run up to its await: both list
\* requests are in flight.
InitProgram ==
    /\ newsIds = [f \in Feeds |-> <<>>]
    /\ newsPage = [f \in Feeds |-> 0]
    /\ newsLoading = [f \in Feeds |-> FALSE]
    /\ initPc = [f \in Feeds |-> "fetching"]
    /\ listeners = FALSE
    /\ loadPc = [f \in Feeds |-> "idle"]
    /\ batchIds = [f \in Feeds |-> <<>>]
    /\ chunkStart = [f \in Feeds |-> 0]
    /\ results = [f \in Feeds |-> <<>>]
    /\ validItemsCount = [f \in Feeds |-> 0]
    /\ surface = [f \in Feeds |-> <<>>]
    /\ button = [f \in Feeds |-> "unset"]
    /\ apiRequests = [f \in Feeds |-> 1]
    /\ apiResult = [f \in Feeds |-> None]
    /\ fetchLog = [f \in Feeds |-> <<>>]
    /\ advances = [f \in Feeds |-> 0]
    /\ ignored = [f \in Feeds |-> 0]
    /\ pageStartLen = [f \in Feeds |-> 0]
    /\ outOfOrder = [f \in Feeds |-> FALSE]

Init ==
    /\ feedLen \in [Feeds -> 0..MaxLen]
    /\ feedLen["best"] + feedLen["latest"] <= MaxTotalLen
    /\ InitProgram

Next ==
    \/ \E f \in Feeds : \E resp \in ListResponses(feedLen[f]) : ResolveIdList(f, resp)
    \/ \E f \in Feeds : \E k \in DOMAIN results[f] :
          \E resp \in ItemResponses(batchIds[f][chunkStart[f] + k]) : ResolveItem(f, k, resp)
    \/ \E f \in Feeds : \E shapes \in [ObjectSlots(f) -> ItemShapes] : ProcessChunk(f, shapes)
    \/ \E f \in Feeds : Complete(f)
    \/ AttachListeners
    \/ \E f \in Feeds : Click(f)

Spec == Init /\ [][Next]_vars

\* ===== Properties =====

Exhausted(f) == newsPage[f] * ITEMS_PER_PAGE >= Len(newsIds[f])

Ceil(a, b) == (a + b - 1) \div b

\* everything of feed f that a loadMore call can touch, except the count of
\* ignored calls
FeedState(f) ==
    <<newsIds[f], newsPage[f], newsLoading[f], loadPc[f], batchIds[f], chunkStart[f],
      results[f], validItemsCount[f], surface[f], button[f], fetchLog[f], advances[f]>>

\* the nodes rendered since the current (or last) page started
PageNodes(f) == SubSeq(surface[f], pageStartLen[f] + 1, Len(surface[f]))

PositionIn(seq, id) == CHOOSE i \in DOMAIN seq : seq[i] = id

\* C1: a feed with a non-empty ID list of length L is exhausted exactly when
\* ceil(L / ITEMS_PER_PAGE) loadMore calls have passed the guard and the last of
\* them has finished; never more than that many calls pass the guard.
C1_ExactPageCount ==
    \A f \in Feeds :
        Len(newsIds[f]) > 0 =>
            LET n == Ceil(Len(newsIds[f]), ITEMS_PER_PAGE) IN
            /\ advances[f] <= n
            /\ newsPage[f] = advances[f] - (IF newsLoading[f] THEN 1 ELSE 0)
            /\ Exhausted(f) <=> (advances[f] = n /\ ~newsLoading[f])

\* a list of more than one page is exhausted after two calls, and a third call
\* was made and ignored
C1_Witness ==
    \E f \in Feeds :
        /\ Len(newsIds[f]) > ITEMS_PER_PAGE
        /\ Exhausted(f)
        /\ advances[f] = 2
        /\ ignored[f] >= 1

\* while a chunk of feed f is in flight, the item requests sent so far are the
\* IDs of the list up to the end of that chunk, each once: one page at a time
OneBatch(f) ==
    (newsLoading[f] /\ loadPc[f] = "fetching") =>
        fetchLog[f] = SubSeq(newsIds[f], 1,
                             newsPage[f] * ITEMS_PER_PAGE + chunkStart[f] + Len(results[f]))

\* C2: a loadMore call made while the feed's loading flag is true changes
\* nothing of the feed (ID list, cursor, flag, chunk in flight, requests sent),
\* so the requests in flight always belong to one page.
C2_InFlightNoOp ==
    /\ [](\A f \in Feeds : OneBatch(f))
    /\ [][\A f \in Feeds :
             (newsLoading[f] /\ Click(f)) =>
                 /\ FeedState(f)' = FeedState(f)
                 /\ Outstanding(f)' = Outstanding(f)]_vars

\* a call was ignored while the second page of the feed is in flight
C2_Witness ==
    \E f \in Feeds :
        /\ newsLoading[f]
        /\ newsPage[f] = 1
        /\ Outstanding(f) > 0
        /\ ignored[f] >= 1

\* C3: at most MAX_CONCURRENT_REQUESTS item requests of a feed are unanswered
C3_ConcurrencyCap == \A f \in Feeds : Outstanding(f) <= MAX_CONCURRENT_REQUESTS

\* the second chunk of a full page is in flight with all its requests unanswered
C3_Witness ==
    \E f \in Feeds :
        /\ Len(batchIds[f]) = ITEMS_PER_PAGE
        /\ chunkStart[f] = MAX_CONCURRENT_REQUESTS
        /\ Outstanding(f) = MAX_CONCURRENT_REQUESTS

NewNodes(f) == SubSeq(surface[f]', Len(surface[f]) + 1, Len(surface[f]'))

\* the forEach of a chunk appends only, renders only items of slots that
\* resolved with an object and counts what it renders; the cursor moves by one,
\* in the step that ends a page and in no other
C5_FilterStep ==
    \A f \in Feeds :
        /\ (loadPc[f] = "fetching" /\ Outstanding(f) = 0) =>
              /\ SubSeq(surface[f]', 1, Len(surface[f])) = surface[f]
              /\ \A n \in DOMAIN NewNodes(f) :
                    \E k \in ObjectSlots(f) :
                        NewNodes(f)[n].id = batchIds[f][chunkStart[f] + k]
              /\ validItemsCount[f]' - validItemsCount[f] = Len(NewNodes(f))
        /\ (loadPc[f] = "completing" /\ loadPc[f]' # "completing") =>
              newsPage[f]' = newsPage[f] + 1
        /\ newsPage[f]' # newsPage[f] => loadPc[f] = "completing"

\* validItemsCount is the number of children the page has added, and every
\* child comes from a story with a URL
C5_CountAtDone ==
    \A f \in Feeds :
        /\ validItemsCount[f] = Len(PageNodes(f))
        /\ \A n \in DOMAIN surface[f] :
              surface[f][n].type = "story" /\ surface[f][n].url # None

\* C5: no child of a surface comes from an item that is absent, is not a story
\* or has no URL; validItemsCount, the count onBatchComplete receives, is the
\* number of children the page has added, so no such item is counted; the step
\* that ends the page moves the cursor by one whatever that count.
C5_FilterCorrect == []C5_CountAtDone /\ [][C5_FilterStep]_vars

\* a page of which some items were rendered and some were not has ended and
\* the cursor has moved
C5_Witness ==
    \E f \in Feeds :
        /\ newsPage[f] = 1
        /\ ~newsLoading[f]
        /\ validItemsCount[f] > 0
        /\ validItemsCount[f] < Len(batchIds[f])
        /\ Len(PageNodes(f)) = validItemsCount[f]

\* C6: once a page has ended and no page is in flight, the button is shown
\* exactly when the feed is not exhausted
C6_ButtonIffMore ==
    \A f \in Feeds :
        (newsPage[f] >= 1 /\ ~newsLoading[f]) =>
            (button[f] = "block" <=> ~Exhausted(f))

\* one feed shows its button after its first page while the other, exhausted,
\* hides it
C6_Witness ==
    \E f, g \in Feeds :
        /\ newsPage[f] = 1 /\ ~newsLoading[f] /\ button[f] = "block"
        /\ newsPage[g] = 1 /\ ~newsLoading[g] /\ button[g] = "none"

\* C7: no exception leaves fetchItemsWithConcurrency (stated as the claim states
\* it; the code violates it)
C7_NoException == \A f \in Feeds : loadPc[f] # "thrown"

\* a step that answers a request with a failure
C8_FailureStep ==
    \A f \in Feeds :
        /\ (initPc[f] = "fetching" /\ initPc[f]' # "fetching") =>
            \A resp \in ListResponses(feedLen[f]) :
              (IsFailure(resp) /\ ResolveIdList(f, resp)) =>
                  /\ apiResult[f]' = Some(Some(<<>>))
                  /\ apiRequests[f]' = 1
                  /\ fetchLog[f]' = <<>>
        /\ \A k \in {j \in DOMAIN results[f] : results[f][j] = Pending} :
              \A resp \in ItemResponses(batchIds[f][chunkStart[f] + k]) :
                  (IsFailure(resp) /\ ResolveItem(f, k, resp)) =>
                      /\ results[f][k]' = Resolved(None)
                      /\ fetchLog[f]' = fetchLog[f]
                      /\ loadPc[f]' = "fetching"

\* C8: answered by a rejected fetch, a non-ok status or an undecodable body, the
\* list request gives initialize an empty array and the item request resolves
\* to null; neither sends a second request and neither call throws.
C8_NeverSurfaces == [][C8_FailureStep]_vars

\* the list request of a feed whose endpoint holds IDs failed, and an item
\* request of the other feed resolved to null
C8_Witness ==
    \E f, g \in Feeds :
        /\ feedLen[f] > 0
        /\ apiResult[f] = Some(Some(<<>>))
        /\ \E k \in DOMAIN results[g] : results[g][k] = Resolved(None)

\* what fetchFromAPI returned was null or an empty array
ReturnedEmpty(f) == apiResult[f] # None /\ idsMissing(apiResult[f][1])

\* C9: a feed whose list request returned nothing never loads: cursor 0, flag
\* false, no item request, button never touched
C9_EmptyFeedIdle ==
    \A f \in Feeds :
        ReturnedEmpty(f) =>
            /\ newsIds[f] = <<>>
            /\ newsPage[f] = 0
            /\ ~newsLoading[f]
            /\ loadPc[f] = "idle"
            /\ fetchLog[f] = <<>>
            /\ advances[f] = 0
            /\ button[f] = "unset"
            /\ initPc[f] = "done"

\* a click on the button of such a feed has been made and ignored
C9_Witness ==
    \E f \in Feeds : ReturnedEmpty(f) /\ listeners /\ ignored[f] >= 1

\* C10: an exhausted feed that has loaded a page stays as it is: no step
\* changes its state, sends a request, renders or shows its button
C10_ExhaustedTerminal ==
    [][\A f \in Feeds :
          (Exhausted(f) /\ newsPage[f] > 0) =>
              /\ FeedState(f)' = FeedState(f)
              /\ Exhausted(f)'
              /\ button[f]' # "block"]_vars

\* a click on the button of a feed exhausted by its first page was ignored
C10_Witness ==
    \E f \in Feeds :
        /\ Len(newsIds[f]) <= ITEMS_PER_PAGE
        /\ newsPage[f] = 1
        /\ Exhausted(f)
        /\ ignored[f] >= 1

\* C11: the cursor of a feed changes only by +1, only in the step that ends a
\* page, with the loading flag true before it; every page that ends moves it,
\* whatever the page's count of valid items.
C11_CursorStep ==
    [][\A f \in Feeds :
          /\ newsPage[f]' >= newsPage[f]
          /\ newsPage[f]' # newsPage[f] =>
                /\ newsPage[f]' = newsPage[f] + 1
                /\ newsLoading[f] /\ ~newsLoading[f]'
                /\ loadPc[f] = "completing"
                /\ validItemsCount[f]' = validItemsCount[f]
          /\ (newsLoading[f] /\ ~newsLoading[f]') => newsPage[f]' = newsPage[f] + 1]_vars

\* a full page of which no item was valid has ended and moved the cursor
C11_Witness ==
    \E f \in Feeds :
        /\ newsPage[f] = 1
        /\ ~newsLoading[f]
        /\ Len(batchIds[f]) = ITEMS_PER_PAGE
        /\ validItemsCount[f] = 0

\* C12: cursor * ITEMS_PER_PAGE never exceeds the length of the ID list by a
\* whole page
C12_CursorBound ==
    \A f \in Feeds :
        newsPage[f] * ITEMS_PER_PAGE <= Len(newsIds[f]) + ITEMS_PER_PAGE - 1

\* the bound is attained: a last page of one ID has ended
C12_Witness ==
    \E f \in Feeds :
        /\ Len(newsIds[f]) > ITEMS_PER_PAGE
        /\ newsPage[f] * ITEMS_PER_PAGE = Len(newsIds[f]) + ITEMS_PER_PAGE - 1

\* C13 as stated: the signal left by a page that has ended is "exhausted"
\* exactly when (c + 1) * ITEMS_PER_PAGE >= L for the cursor c after the increment
C13_SignalAfterIncrement ==
    \A f \in Feeds :
        (newsPage[f] >= 1 /\ ~newsLoading[f]) =>
            (button[f] = "none" <=> (newsPage[f] + 1) * ITEMS_PER_PAGE >= Len(newsIds[f]))

\* C13 amended: onBatchComplete sets the signal before the increment, while the
\* flag is true; it is "exhausted" exactly when (c + 1) * ITEMS_PER_PAGE >= L
\* for the cursor c before the increment.
C13_SignalBeforeIncrement ==
    \A f \in Feeds :
        loadPc[f] = "completing" =>
            /\ newsLoading[f]
            /\ newsPage[f] = advances[f] - 1
            /\ button[f] = "none" <=> (newsPage[f] + 1) * ITEMS_PER_PAGE >= Len(newsIds[f])

\* onBatchComplete of the first page of a longer list has shown the button, the
\* cursor still 0
C13_Witness ==
    \E f \in Feeds :
        /\ loadPc[f] = "completing"
        /\ newsPage[f] = 0
        /\ button[f] = "block"

\* the nodes of the page in flight come from chunks before the one in flight
RenderedBeforeChunk(f) ==
    loadPc[f] = "fetching" =>
        \A n \in DOMAIN PageNodes(f) :
            \E p \in 1..chunkStart[f] : batchIds[f][p] = PageNodes(f)[n].id

\* a step that sends item requests, renders or counts starts from a chunk whose
\* requests are all answered (or from no chunk at all, at the start of a page),
\* and the requests it sends are the IDs right after that chunk
SequentialStep(f) ==
    /\ (fetchLog[f]' # fetchLog[f] \/ surface[f]' # surface[f]
            \/ validItemsCount[f]' > validItemsCount[f]) =>
          Outstanding(f) = 0
    /\ (fetchLog[f]' # fetchLog[f] /\ newsLoading[f]) =>
          /\ chunkStart[f]' = chunkStart[f] + Len(results[f])
          /\ fetchLog[f]' = fetchLog[f] \o [k \in DOMAIN results[f]' |->
                                              batchIds[f][chunkStart[f]' + k]]
    /\ (surface[f]' # surface[f] \/ validItemsCount[f]' > validItemsCount[f]) =>
          /\ loadPc[f] = "fetching"
          /\ \A n \in DOMAIN NewNodes(f) :
                \E k \in ObjectSlots(f) :
                    NewNodes(f)[n].id = batchIds[f][chunkStart[f] + k]

C15_LatchClears ==
    \A f \in Feeds :
        newsLoading[f] =>
            \/ Outstanding(f) > 0
            \/ loadPc[f] = "fetching"
            \/ loadPc[f] = "completing"

\* the attributes under which onItemFetched rejects an item of feed f
InvalidShape(f, s) ==
    \/ s.type # "story"
    \/ s.url = None
    \/ (f = "latest" /\ s.score # None /\ s.score[1] < MIN_SCORE_LATEST)

\* slot k of the resolved chunk answered with null / with the object of its ID
SlotAbsent(f, k) == [results[f] EXCEPT ![k] = Resolved(None)]
SlotObject(f, k) ==
    [results[f] EXCEPT ![k] = Resolved(Some(batchIds[f][chunkStart[f] + k]))]

\* C16: an ID whose fetch gave no item and an ID whose item fails validation
\* leave the same feed state: for a resolved chunk, any slot k and any
\* attributes of the other slots, forEach over the chunk gives the same
\* rendering, the same count of valid items and the same outcome whether slot k
\* holds null or an invalid item; cursor, flag and button follow from these.
C16_AbsentLikeInvalid ==
    \A f \in Feeds :
        (loadPc[f] = "fetching" /\ Outstanding(f) = 0) =>
            \A k \in DOMAIN results[f] :
                \A shapes \in [ObjectSlots(f) \cup {k} -> ItemShapes] :
                    InvalidShape(f, shapes[k]) =>
                        forEachItem(f, SlotAbsent(f, k), shapes, 1, surface[f],
                                    validItemsCount[f])
                          = forEachItem(f, SlotObject(f, k), shapes, 1, surface[f],
                                        validItemsCount[f])

\* a resolved chunk of three slots with a null slot and an object slot waits
\* for forEach
C16_Witness ==
    \E f \in Feeds :
        /\ loadPc[f] = "fetching"
        /\ Outstanding(f) = 0
        /\ Len(results[f]) = MAX_CONCURRENT_REQUESTS
        /\ \E k \in DOMAIN results[f] : results[f][k].item = None
        /\ ObjectSlots(f) # {}

\* a step in which a click starts a page of feed f
UserAdvance(f) ==
    /\ initPc[f] # "fetching"
    /\ advances[f]' # advances[f]

\* C17: a click starts a page, or is ignored, only once the initialization of
\* both feeds has returned; the listeners are attached in one step after both,
\* and are never attached while one initialization is pending or has thrown.
C17_ClickNeedsBothInit ==
    /\ [](listeners => \A g \in Feeds : initPc[g] = "done")
    /\ [][\A f \in Feeds :
            /\ (UserAdvance(f) \/ ignored[f]' # ignored[f]) =>
                  (listeners /\ \A g \in Feeds : initPc[g] = "done")
            /\ listeners' # listeners =>
                  (listeners' /\ \A g \in Feeds : initPc[g] = "done")]_vars

\* one feed shows its button after its first page while the initialization of
\* the other has thrown: no listener is attached and no page was started by a
\* click
C17_Witness ==
    \E f, g \in Feeds :
        /\ initPc[f] = "done" /\ button[f] = "block"
        /\ initPc[g] = "failed"
        /\ ~listeners
        /\ advances[f] = 1

\* C18: the item requests of a feed are the IDs of its list in order, each
\* position once and none skipped; when the feed is exhausted every position
\* has been requested once.
C18_EachPositionOnce ==
    \A f \in Feeds :
        /\ Len(fetchLog[f]) <= Len(newsIds[f])
        /\ fetchLog[f] = SubSeq(newsIds[f], 1, Len(fetchLog[f]))
        /\ (initPc[f] = "done" /\ Exhausted(f)) => fetchLog[f] = newsIds[f]

\* a list of more than one page is exhausted and all of it was requested
C18_Witness ==
    \E f \in Feeds :
        /\ Len(newsIds[f]) > ITEMS_PER_PAGE
        /\ initPc[f] = "done" /\ Exhausted(f)
        /\ fetchLog[f] = newsIds[f]

\* C19: the unanswered item requests of both feeds together never exceed
\* 2 * MAX_CONCURRENT_REQUESTS, each feed holding at most
\* MAX_CONCURRENT_REQUESTS of them
C19_SystemWideCap ==
    /\ \A f \in Feeds : Outstanding(f) <= MAX_CONCURRENT_REQUESTS
    /\ Outstanding("best") + Outstanding("latest") <= 2 * MAX_CONCURRENT_REQUESTS

\* the chunks of the two feeds overlap: more than MAX_CONCURRENT_REQUESTS
\* requests are unanswered, the most that can be
C19_Witness ==
    /\ Outstanding("best") > 0 /\ Outstanding("latest") > 0
    /\ Outstanding("best") + Outstanding("latest") = 2 * MAX_CONCURRENT_REQUESTS

====
